---- MODULE Spec2Model ----
(***************************************************************************)
(* coreos-metadata: the four metadata providers (OpenStack, EC2, GCE,      *)
(* DigitalOcean), the DigitalOcean network synthesis (parseNetwork,        *)
(* parseInterface) and the retry client's backoff schedule.                *)
(*                                                                         *)
(* Strings that the code splits or scans (MAC addresses, key-listing       *)
(* lines) are tuples of one-character strings; a response body that is a   *)
(* listing is the tuple of its lines, i.e. strings.Split(body, "\n"): the  *)
(* empty body is the one-line listing << <<>> >>.  A nil slice, a nil      *)
(* net.IP and a nil error are <<>>, <<>> and "".                           *)
(***************************************************************************)
EXTENDS Integers, Sequences, FiniteSets, TLC

VARIABLES provider, pc, log, acc, result,
          ifaceIn, ifaceOut,
          client, attempt, sleeps, outcome

vars == <<provider, pc, log, acc, result, ifaceIn, ifaceOut,
          client, attempt, sleeps, outcome>>

providerVars == <<provider, pc, log, acc, result>>
ifaceVars == <<ifaceIn, ifaceOut>>
retryVars == <<client, attempt, sleeps, outcome>>

(***************************************************************************)
(* Bounds of the model.                                                    *)
(***************************************************************************)
MaxIfaces == 2
MaxLines == 2

(***************************************************************************)
(* Standard-library conversions, as the code uses them.                    *)
(***************************************************************************)
V4(a, b, c, d) == <<0, 0, 0, 0, 0, 0, 0, 0, 0, 0, 255, 255, a, b, c, d>>

V6(h, l) == <<32, 1, 13, 184, 0, 0, 0, 0, 0, 0, 0, 0, 0, 0, h, l>>

\* net.ParseIP on the address strings the inputs use: the 16-byte form, or
\* nil (<<>>) for a string that is no IP literal.
ParseIP(s) ==
    CASE s = "10.0.0.5"      -> V4(10, 0, 0, 5)
      [] s = "10.0.0.1"      -> V4(10, 0, 0, 1)
      [] s = "10.1.0.9"      -> V4(10, 1, 0, 9)
      [] s = "10.1.0.1"      -> V4(10, 1, 0, 1)
      [] s = "255.255.255.0" -> V4(255, 255, 255, 0)
      [] s = "255.255.0.0"   -> V4(255, 255, 0, 0)
      [] s = "8.8.8.8"       -> V4(8, 8, 8, 8)
      [] s = "8.8.4.4"       -> V4(8, 8, 4, 4)
      [] s = "2001:db8::5"   -> V6(0, 5)
      [] s = "2001:db8::1"   -> V6(0, 1)
      [] OTHER               -> <<>>

\* net.IP.To4: the 4-byte form of an IPv4 address, nil for anything else.
To4(ip) ==
    IF Len(ip) = 4 THEN ip
    ELSE IF /\ Len(ip) = 16
            /\ \A i \in 1..10 : ip[i] = 0
            /\ ip[11] = 255
            /\ ip[12] = 255
         THEN SubSeq(ip, 13, 16)
         ELSE <<>>

Pow2(n) == IF n = 0 THEN 1 ELSE IF n = 1 THEN 2 ELSE IF n = 2 THEN 4
           ELSE IF n = 3 THEN 8 ELSE IF n = 4 THEN 16 ELSE IF n = 5 THEN 32
           ELSE IF n = 6 THEN 64 ELSE IF n = 7 THEN 128 ELSE 256

\* net.CIDRMask(ones, bits): ones 1-bits followed by 0-bits, nil when out
\* of range.
CIDRMask(ones, bits) ==
    IF ones < 0 \/ ones > bits THEN <<>>
    ELSE [i \in 1..(bits \div 8) |->
            IF i <= ones \div 8 THEN 255
            ELSE IF i = (ones \div 8) + 1 THEN 256 - Pow2(8 - (ones % 8))
            ELSE 0]

IPv4zero == V4(0, 0, 0, 0)

IPv6zero == [i \in 1..16 |-> 0]

HexDigit(c) ==
    CASE c = "0" -> 0 [] c = "1" -> 1 [] c = "2" -> 2 [] c = "3" -> 3
      [] c = "4" -> 4 [] c = "5" -> 5 [] c = "6" -> 6 [] c = "7" -> 7
      [] c = "8" -> 8 [] c = "9" -> 9
      [] c \in {"a", "A"} -> 10 [] c \in {"b", "B"} -> 11
      [] c \in {"c", "C"} -> 12 [] c \in {"d", "D"} -> 13
      [] c \in {"e", "E"} -> 14 [] c \in {"f", "F"} -> 15
      [] OTHER -> -1

\* xtoi2(s[x:], e): two hex digits at x, x+1, followed (if anything follows)
\* by the separator e; -1 when that fails.
Xtoi2(s, x, e) ==
    IF x + 1 > Len(s) THEN -1
    ELSE IF x + 2 <= Len(s) /\ s[x + 2] # e THEN -1
    ELSE IF HexDigit(s[x]) < 0 \/ HexDigit(s[x + 1]) < 0 THEN -1
    ELSE 16 * HexDigit(s[x]) + HexDigit(s[x + 1])

\* net.ParseMAC for the colon- and hyphen-separated forms (the dotted form
\* is not among the inputs): the bytes of the address, or nil (<<>>).
ParseMAC(s) ==
    IF Len(s) < 14 THEN <<>>
    ELSE IF s[3] \in {":", "-"}
         THEN IF (Len(s) + 1) % 3 # 0 THEN <<>>
              ELSE LET n == (Len(s) + 1) \div 3
                       hw == [i \in 1..n |-> Xtoi2(s, 3 * (i - 1) + 1, s[3])]
                   IN  IF n \notin {6, 8, 20} THEN <<>>
                       ELSE IF \E i \in 1..n : hw[i] < 0 THEN <<>>
                       ELSE hw
         ELSE <<>>

(***************************************************************************)
(* DigitalOcean: the document types.                                       *)
(***************************************************************************)
\* A nil *Address.
NilAddress == [present |-> FALSE, IPAddress |-> "", Netmask |-> "",
               Cidr |-> 0, Gateway |-> ""]

Address(ip, mask, cidr, gw) ==
    [present |-> TRUE, IPAddress |-> ip, Netmask |-> mask,
     Cidr |-> cidr, Gateway |-> gw]

Interface(v4, v6, anchor, mac, type) ==
    [IPv4 |-> v4, IPv6 |-> v6, AnchorIPv4 |-> anchor, MAC |-> mac, Type |-> type]

ZeroIPNet == [IP |-> <<>>, Mask |-> <<>>]

ZeroRoute == [Destination |-> ZeroIPNet, Gateway |-> <<>>]

(***************************************************************************)
(* DigitalOcean: the network synthesis.                                    *)
(***************************************************************************)
parseIPv4Address(address) ==
    LET ip   == ParseIP(address.IPAddress)
        mask == ParseIP(address.Netmask)
    IN  IF ip = <<>> THEN [err |-> "could not parse IPv4 address", net |-> ZeroIPNet]
        ELSE IF mask = <<>> THEN [err |-> "could not parse IPv4 mask", net |-> ZeroIPNet]
        ELSE [err |-> "", net |-> [IP |-> ip, Mask |-> To4(mask)]]

parseIPv6Address(address) ==
    LET ip == ParseIP(address.IPAddress)
    IN  IF ip = <<>> THEN [err |-> "could not parse IPv6 address", net |-> ZeroIPNet]
        ELSE [err |-> "", net |-> [IP |-> ip, Mask |-> CIDRMask(address.Cidr, 128)]]

\* parseRoute without its check of the gateway.
parseRouteLenient(gateway, destination) ==
    [err |-> "", route |-> [Destination |-> destination, Gateway |-> ParseIP(gateway)]]

parseRoute(gateway, destination) ==
    LET addr == ParseIP(gateway)
    IN  IF addr = <<>> THEN [err |-> "could not parse gateway address", route |-> ZeroRoute]
        ELSE [err |-> "", route |-> [Destination |-> destination, Gateway |-> addr]]

ParseFail(e) == [err |-> e, addrs |-> <<>>, routes |-> <<>>]

\* One `if iface.X != nil` block of parseInterface, after its two parse
\* calls: a is the result of parseIPv4Address or parseIPv6Address, r that of
\* parseRoute; the appends, with the default route when withDefault.
AddressBlockWith(prev, a, r, zero, withDefault) ==
    IF a.err # "" THEN ParseFail(a.err)
    ELSE IF r.err # "" THEN ParseFail(r.err)
    ELSE [err |-> "",
          addrs |-> Append(prev.addrs, a.net),
          routes |-> prev.routes \o <<r.route>> \o
              (IF withDefault
               THEN <<[Destination |-> [IP |-> zero, Mask |-> zero],
                       Gateway |-> r.route.Gateway]>>
               ELSE <<>>)]

\* route, err := parseRoute(iface.X.Gateway, addr)
AddressBlockRoute(prev, a, gateway, zero, withDefault) ==
    AddressBlockWith(prev, a, parseRoute(gateway, a.net), zero, withDefault)

\* One `if iface.X != nil` block of parseInterface: the address, its route
\* and, when withDefault, the default route via the same gateway.
AddressBlock(prev, address, isV6, withDefault) ==
    IF prev.err # "" \/ ~address.present THEN prev
    ELSE AddressBlockRoute(prev,
             IF isV6 THEN parseIPv6Address(address) ELSE parseIPv4Address(address),
             address.Gateway,
             IF isV6 THEN IPv6zero ELSE IPv4zero,
             withDefault)

\* var addrs []net.IPNet; var routes []providers.NetworkRoute
NoAddresses == [err |-> "", addrs |-> <<>>, routes |-> <<>>]

\* parseInterface with the default route added after the anchor address too.
parseInterfaceAnchorDefault(iface, public) ==
    AddressBlock(
        AddressBlock(
            AddressBlock(NoAddresses, iface.IPv4, FALSE, public),
            iface.IPv6, TRUE, public),
        iface.AnchorIPv4, FALSE, public)

\* The IPv4 block, then the IPv6 block, then the anchor block.
parseInterface(iface, public) ==
    AddressBlock(
        AddressBlock(
            AddressBlock(NoAddresses, iface.IPv4, FALSE, public),
            iface.IPv6, TRUE, public),
        iface.AnchorIPv4, FALSE, FALSE)

RECURSIVE parseNameserversFrom(_, _, _)
parseNameserversFrom(servers, i, addrs) ==
    IF i > Len(servers) THEN [err |-> "", addrs |-> addrs]
    ELSE LET addr == ParseIP(servers[i])
         IN  IF addr = <<>> THEN [err |-> "could not parse nameserver", addrs |-> <<>>]
             ELSE parseNameserversFrom(servers, i + 1, Append(addrs, addr))

parseNameservers(servers) == parseNameserversFrom(servers, 1, <<>>)

\* ifaceConfigs[key] of a Go map: the zero NetworkInterface for a missing key.
Lookup(ifaceConfigs, key) ==
    IF key \in DOMAIN ifaceConfigs THEN ifaceConfigs[key]
    ELSE [HardwareAddress |-> <<>>, Nameservers |-> <<>>,
          IPAddresses |-> <<>>, Routes |-> <<>>]

\* The key under which parseNetwork files an interface description.
ConfigKey(iface) == iface.MAC

\* The assignment ifaceConfigs[key] = NetworkInterface{...} of parseNetwork.
StoreConfig(ifaceConfigs, key, mac, servers, addrs, routes) ==
    [k \in DOMAIN ifaceConfigs \cup {key} |->
        IF k = key
        THEN [HardwareAddress |-> mac,
              Nameservers     |-> servers,
              IPAddresses     |-> Lookup(ifaceConfigs, key).IPAddresses \o addrs,
              Routes          |-> Lookup(ifaceConfigs, key).Routes \o routes]
        ELSE ifaceConfigs[k]]

\* The classification parseNetwork hands to parseInterface.
IsPublic(iface) == iface.Type = "public"

\* The loop of parseNetwork over append(Private, Public...).
RECURSIVE parseNetworkLoop(_, _, _, _)
\* The body of the loop for the description iface, mac being the result of
\* net.ParseMAC and p that of parseInterface.
parseNetworkStep(list, i, servers, ifaceConfigs, iface, mac, p) ==
    IF mac = <<>> THEN [err |-> "could not parse MAC address", configs |-> <<>>]
    ELSE IF p.err # "" THEN [err |-> p.err, configs |-> <<>>]
    ELSE parseNetworkLoop(list, i + 1, servers,
             StoreConfig(ifaceConfigs, ConfigKey(iface), mac, servers,
                         p.addrs, p.routes))

parseNetworkLoop(list, i, servers, ifaceConfigs) ==
    IF i > Len(list) THEN [err |-> "", configs |-> ifaceConfigs]
    ELSE parseNetworkStep(list, i, servers, ifaceConfigs, list[i],
             ParseMAC(list[i].MAC), parseInterface(list[i], IsPublic(list[i])))

\* The slice a range over a map builds holds the map's values in no
\* particular order: the bag of the values.
MapValues(m) ==
    LET vals == {m[k] : k \in DOMAIN m}
    IN  [v \in vals |-> Cardinality({k \in DOMAIN m : m[k] = v})]

\* The order in which parseNetwork processes the descriptions.
ProcessingOrder(metadata) == metadata.Interfaces.Private \o metadata.Interfaces.Public

\* parseNetwork after its loop: ns is the result of parseNameservers, r
\* that of the loop.
parseNetworkWith(ns, r) ==
    IF ns.err # "" THEN [err |-> ns.err, ifaces |-> <<>>]
    ELSE IF r.err # "" THEN [err |-> r.err, ifaces |-> <<>>]
    ELSE [err |-> "", ifaces |-> MapValues(r.configs)]

parseNetwork(metadata) ==
    LET ns == parseNameservers(metadata.DNS.Nameservers)
    IN  parseNetworkWith(ns, parseNetworkLoop(ProcessingOrder(metadata), 1, ns.addrs, <<>>))

(***************************************************************************)
(* The metadata service as the providers see it through retry.Client.Get:  *)
(* (nil, err) after the retries are exhausted, (nil, nil) for an absent    *)
(* key, (body, nil) for a present one.                                     *)
(***************************************************************************)
Req(path) == [path |-> path, arg |-> <<>>]

KeyReq(path, id) == [path |-> path, arg |-> id]

LineEmpty == <<>>
Line0a    == <<"0", "=", "a">>
Line1a    == <<"1", "=", "a">>
Line1bc   == <<"1", "=", "b", "=", "c">>
Line0ab   == <<"0", "=", "a", "=", "b">>
LineX     == <<"x">>
LineDk    == <<"u", ":", "d">>
LineDkz   == <<"u", ":", "d", ":", "z">>
LineIk    == <<"u", ":", "i">>
LinePk    == <<"u", ":", "p">>

Listings(lines) == UNION {[1..n -> lines] : n \in 1..MaxLines}

ListingPaths == {"latest/meta-data/public-keys", "2009-04-04/public-keys",
                 "instance/attributes/sshKeys", "instance/attributes/ssh-keys",
                 "project/attributes/sshKeys"}

DOPath == "metadata/v1.json"

ZeroDoc == [Hostname |-> "", Region |-> "", PublicKeys |-> <<>>,
            Interfaces |-> [Public |-> <<>>, Private |-> <<>>],
            DNS |-> [Nameservers |-> <<>>]]

\* string(nil): the body of an absent or failed response.
NilBody(path) ==
    IF path \in ListingPaths THEN << <<>> >>
    ELSE IF path = DOPath THEN [valid |-> FALSE, m |-> ZeroDoc]
    ELSE ""

M1Lower == <<"a","a",":","b","b",":","c","c",":","d","d",":","e","e",":","0","1">>
M1Upper == <<"A","A",":","B","B",":","C","C",":","D","D",":","E","E",":","0","1">>
M2Lower == <<"a","a",":","b","b",":","c","c",":","d","d",":","e","e",":","0","2">>
MBad    == <<"z","z",":","b","b",":","c","c",":","d","d",":","e","e",":","0","1">>

GoodV4     == Address("10.0.0.5", "255.255.255.0", 0, "10.0.0.1")
GoodV6     == Address("2001:db8::5", "", 64, "2001:db8::1")
GoodAnchor == Address("10.1.0.9", "255.255.0.0", 0, "10.1.0.1")

\* The interface descriptions of the DigitalOcean documents: under one
\* spelling of a hardware address every good shape, under a second spelling
\* of it and under another address the shapes without and with an IPv4
\* address, each under both types; and one description for each string that
\* can fail to parse.
GoodIfaces ==
    {Interface(a[1], a[2], a[3], M1Lower, type) :
        a \in {<<NilAddress, NilAddress, NilAddress>>,
               <<GoodV4, NilAddress, NilAddress>>,
               <<GoodV4, GoodV6, GoodAnchor>>},
        type \in {"public", "private"}} \cup
    {Interface(v4, NilAddress, NilAddress, mac, type) :
        v4 \in {NilAddress, GoodV4},
        mac \in {M1Upper, M2Lower},
        type \in {"public", "private"}}

BadIfaces ==
    {Interface(GoodV4, NilAddress, NilAddress, MBad, "private")} \cup
    {Interface(a[1], a[2], a[3], M1Lower, "private") :
        a \in {<<Address("bogus", "255.255.255.0", 0, "10.0.0.1"), NilAddress, NilAddress>>,
               <<Address("10.0.0.5", "bogus", 0, "10.0.0.1"), NilAddress, NilAddress>>,
               <<Address("10.0.0.5", "255.255.255.0", 0, "bogus"), NilAddress, NilAddress>>,
               <<NilAddress, Address("bogus", "", 64, "2001:db8::1"), NilAddress>>,
               <<NilAddress, Address("2001:db8::5", "", 64, "bogus"), NilAddress>>,
               <<NilAddress, NilAddress, Address("bogus", "255.255.0.0", 0, "10.1.0.1")>>,
               <<NilAddress, NilAddress, Address("10.1.0.9", "bogus", 0, "10.1.0.1")>>,
               <<NilAddress, NilAddress, Address("10.1.0.9", "255.255.0.0", 0, "bogus")>>}}

DocIfaces == GoodIfaces \cup BadIfaces

NameserverLists == {<<>>, <<"8.8.8.8", "8.8.4.4">>, <<"8.8.8.8", "bogus">>}

\* A decoded document: the descriptions s, the first j of them in the
\* private list and the rest in the public list.
Doc(s, j, ns) ==
    [Hostname   |-> "droplet",
     Region     |-> "nyc3",
     PublicKeys |-> <<"ssh-rsa DO">>,
     Interfaces |-> [Private |-> SubSeq(s, 1, j), Public |-> SubSeq(s, j + 1, Len(s))],
     DNS        |-> [Nameservers |-> ns]]

\* The bodies a present response can carry, per key (the documents of the
\* DigitalOcean key that decode are drawn in DigitaloceanFetchMetadata).
Bodies(path) ==
    CASE path \in {"latest/meta-data/instance-id", "latest/meta-data/local-ipv4",
                   "latest/meta-data/public-ipv4", "latest/meta-data/hostname"}
            -> {"", "v"}
      [] path = "latest/meta-data/public-keys"
            -> Listings({LineEmpty, Line0a, LineX, Line0ab})
      [] path = "latest/meta-data/public-keys/%s/openssh-key"
            -> {"", "ssh-rsa OS"}
      [] path \in {"2009-04-04/meta-data/instance-id", "2009-04-04/meta-data/hostname",
                   "2009-04-04/meta-data/placement/availability-zone"}
            -> {"v"}
      [] path \in {"2009-04-04/meta-data/public-ipv4", "2009-04-04/meta-data/local-ipv4"}
            -> {"10.0.0.5", "bogus"}
      [] path = "2009-04-04/dynamic/instance-identity/document"
            -> {"{\"region\":\"r1\"}", "not json"}
      [] path = "2009-04-04/public-keys"
            -> Listings({LineEmpty, Line0a, Line1a, Line1bc, LineX})
      [] path = "2009-04-04/public-keys/%s/openssh-key"
            -> {"ssh-rsa EC2"}
      [] path \in {"instance/network-interfaces/0/access-configs/0/external-ip",
                   "instance/network-interfaces/0/ip"}
            -> {"", "10.0.0.5", "bogus"}
      [] path = "instance/hostname"
            -> {"", "v"}
      [] path = "instance/attributes/sshKeys"
            -> Listings({LineEmpty, LineDk, LineX, LineDkz})
      [] path = "instance/attributes/ssh-keys"
            -> Listings({LineEmpty, LineIk, LineX})
      [] path = "instance/attributes/block-project-ssh-keys"
            -> {"true", "1", "false", "bogus"}
      [] path = "project/attributes/sshKeys"
            -> Listings({LineEmpty, LinePk, LineX})
      [] path = DOPath
            -> {[valid |-> FALSE, m |-> ZeroDoc]}

Responses(path) ==
    {[kind |-> k, body |-> NilBody(path)] : k \in {"err", "absent"}} \cup
    {[kind |-> "present", body |-> b] : b \in Bodies(path)}

(***************************************************************************)
(* String helpers.                                                         *)
(***************************************************************************)
HasSep(s, c) == \E i \in 1..Len(s) : s[i] = c

FirstSep(s, c) == CHOOSE i \in 1..Len(s) : s[i] = c /\ \A j \in 1..(i - 1) : s[j] # c

\* strings.Split(s, c)
RECURSIVE Split(_, _)
Split(s, c) ==
    IF ~HasSep(s, c) THEN <<s>>
    ELSE <<SubSeq(s, 1, FirstSep(s, c) - 1)>> \o
         Split(SubSeq(s, FirstSep(s, c) + 1, Len(s)), c)

\* strings.SplitN(s, c, 2)
SplitN2(s, c) ==
    IF ~HasSep(s, c) THEN <<s>>
    ELSE <<SubSeq(s, 1, FirstSep(s, c) - 1), SubSeq(s, FirstSep(s, c) + 1, Len(s))>>

\* bufio.Scanner with ScanLines over a body: its lines, without a final
\* empty one.
ScanLines(body) ==
    IF body[Len(body)] = <<>> THEN SubSeq(body, 1, Len(body) - 1) ELSE body

\* strconv.ParseBool
ParseBool(s) ==
    IF s \in {"1", "t", "T", "TRUE", "true", "True"} THEN [err |-> "", val |-> TRUE]
    ELSE IF s \in {"0", "f", "F", "FALSE", "false", "False"} THEN [err |-> "", val |-> FALSE]
    ELSE [err |-> "invalid syntax", val |-> FALSE]

\* json.Unmarshal into instanceIdDoc, for the bodies of the document key.
UnmarshalInstanceIdDoc(body) ==
    CASE body = "{\"region\":\"r1\"}" -> [err |-> "", Region |-> "r1"]
      [] body = "{}"                  -> [err |-> "", Region |-> ""]
      [] OTHER                        -> [err |-> "invalid JSON", Region |-> ""]

\* providers.String
String(ip) ==
    CASE ip = <<>>              -> ""
      [] ip = V4(10, 0, 0, 5)   -> "10.0.0.5"
      [] ip = V4(10, 1, 0, 9)   -> "10.1.0.9"
      [] ip = V6(0, 5)          -> "2001:db8::5"
      [] OTHER                  -> "?"

ZeroMetadata == [Attributes |-> <<>>, Hostname |-> "", SshKeys |-> <<>>, Network |-> <<>>]

(***************************************************************************)
(* The providers.  pc names the sub-fetch FetchMetadata issues next; acc   *)
(* holds its local variables; log is the sequence of Get calls made, each  *)
(* with its answer; result is what FetchMetadata returned once pc="done".  *)
(***************************************************************************)
Providers == {"openstack", "ec2", "gce", "digitalocean"}

FirstPc(p) ==
    CASE p = "openstack"    -> "instance_id"
      [] p = "ec2"          -> "instance_id"
      [] p = "gce"          -> "external_ip"
      [] p = "digitalocean" -> "v1_json"

EmptyAcc == [attrs |-> <<>>, instanceId |-> "", public |-> <<>>, local |-> <<>>,
             hostname |-> "", availabilityZone |-> "", region |-> "",
             keyNum |-> <<>>, keyIDs |-> <<>>, pending |-> {}, keys |-> <<>>]

\* openstack/ec2 fetchMetadata, fetchString: (string(body), body != nil, err)
fetchString(resp) ==
    [val |-> resp.body, ok |-> resp.kind = "present",
     err |-> IF resp.kind = "err" THEN "get failed" ELSE ""]

\* gce fetchString: (string(body), len(body) > 0, err)
gceFetchString(path, resp) ==
    [val |-> resp.body, ok |-> resp.kind = "present" /\ resp.body # NilBody(path),
     err |-> IF resp.kind = "err" THEN "get failed" ELSE ""]

\* ec2/gce fetchIP over the result f of fetchString
fetchIP(f) ==
    IF f.err # "" THEN [err |-> f.err, ip |-> <<>>]
    ELSE IF ~f.ok THEN [err |-> "", ip |-> <<>>]
    ELSE IF ParseIP(f.val) # <<>> THEN [err |-> "", ip |-> ParseIP(f.val)]
    ELSE [err |-> "couldn't parse as IP address", ip |-> <<>>]

\* A return of what was gathered so far, with the error.
ErrorReturnPartial(partial) ==
    [Attributes |-> partial.attrs, Hostname |-> partial.hostname,
     SshKeys |-> partial.keys, Network |-> <<>>]

\* The value FetchMetadata returns when a step fails.
ErrorReturn(partial) == ZeroMetadata

Fail(e) == [err |-> e, md |-> ErrorReturn(acc)]

Ok(md) == [err |-> "", md |-> md]

Logged(req, resp) == Append(log, [req |-> req, kind |-> resp.kind, body |-> resp.body])

\* A sub-fetch after which FetchMetadata goes on.
Goto(req, resp, nextPc, nextAcc) ==
    /\ log' = Logged(req, resp)
    /\ pc' = nextPc
    /\ acc' = nextAcc
    /\ UNCHANGED <<provider, result, ifaceVars, retryVars>>

\* A sub-fetch after which FetchMetadata returns.
Return(req, resp, res) ==
    /\ log' = Logged(req, resp)
    /\ pc' = "done"
    /\ result' = res
    /\ UNCHANGED <<provider, acc, ifaceVars, retryVars>>

(***************************************************************************)
(* OpenStack                                                               *)
(***************************************************************************)
OpenstackScalar(p) ==
    CASE p = "instance_id" -> [key |-> "latest/meta-data/instance-id",
                               attr |-> "OPENSTACK_INSTANCE_ID", next |-> "local_ipv4"]
      [] p = "local_ipv4"  -> [key |-> "latest/meta-data/local-ipv4",
                               attr |-> "OPENSTACK_IPV4_LOCAL", next |-> "public_ipv4"]
      [] p = "public_ipv4" -> [key |-> "latest/meta-data/public-ipv4",
                               attr |-> "OPENSTACK_IPV4_PUBLIC", next |-> "hostname"]
      [] p = "hostname"    -> [key |-> "latest/meta-data/hostname",
                               attr |-> "OPENSTACK_HOSTNAME", next |-> "public_keys"]

OpenstackScalarPcs == {"instance_id", "local_ipv4", "public_ipv4", "hostname"}

\* Whether fetchAndSet leaves the attribute out.
OmitAttribute(f) == ~f.ok \/ f.val = ""

fetchAndSet(resp, attrKey, attributes) ==
    LET f == fetchString(resp)
    IN  IF f.err # "" THEN [err |-> f.err, attributes |-> attributes]
        ELSE IF OmitAttribute(f) THEN [err |-> "", attributes |-> attributes]
        ELSE [err |-> "", attributes |-> (attrKey :> f.val) @@ attributes]

\* openstack fetchKeys up to the fetch of the key body: keyNum is the index
\* whose key is fetched next, none when fetch is FALSE.
OpenstackKeyList(resp) ==
    LET f == fetchString(resp)
        keysList == f.val
        keyTokens == Split(keysList[1], "=")
    IN  IF f.err # "" THEN [err |-> f.err, fetch |-> FALSE, keyNum |-> <<>>]
        ELSE IF ~f.ok \/ f.val = << <<>> >> THEN [err |-> "", fetch |-> FALSE, keyNum |-> <<>>]
        ELSE IF Len(keyTokens) # 2
             THEN [err |-> "error parsing keyID", fetch |-> FALSE, keyNum |-> <<>>]
        ELSE [err |-> "", fetch |-> TRUE, keyNum |-> keyTokens[1]]

\* openstack fetchKeys from the fetch of the key body on.
OpenstackKeyBody(resp) ==
    LET f == fetchString(resp)
    IN  IF f.err # "" THEN [err |-> f.err, keys |-> <<>>]
        ELSE IF ~f.ok \/ f.val = "" THEN [err |-> "problem fetching key", keys |-> <<>>]
        ELSE [err |-> "", keys |-> <<f.val>>]

OpenstackMetadata(attributes, keys) ==
    [Attributes |-> attributes, Hostname |-> "", SshKeys |-> keys, Network |-> <<>>]

(***************************************************************************)
(* EC2                                                                     *)
(***************************************************************************)
Ec2KeyPath == "2009-04-04/public-keys/%s/openssh-key"

\* The loop of ec2 fetchSshKeys over keynames that fills keyIDs.
RECURSIVE Ec2KeyIDs(_, _, _)
Ec2KeyIDs(keynames, i, keyIDs) ==
    IF i > Len(keynames) THEN [err |-> "", keyIDs |-> keyIDs]
    ELSE LET tokens == SplitN2(keynames[i], "=")
         IN  IF Len(tokens) # 2 THEN [err |-> "malformed public key", keyIDs |-> <<>>]
             ELSE Ec2KeyIDs(keynames, i + 1,
                            [n \in DOMAIN keyIDs \cup {tokens[2]} |->
                                IF n = tokens[2] THEN tokens[1] ELSE keyIDs[n]])

\* ec2 fetchSshKeys with strings.Split in place of the line scanner.
Ec2KeyListSplit(resp) ==
    LET f == fetchString(resp)
        ids == Ec2KeyIDs(f.val, 1, <<>>)
    IN  IF f.err # "" THEN [err |-> "error reading keys", present |-> FALSE, keyIDs |-> <<>>]
        ELSE IF ~f.ok THEN [err |-> "", present |-> FALSE, keyIDs |-> <<>>]
        ELSE IF ids.err # "" THEN [err |-> ids.err, present |-> FALSE, keyIDs |-> <<>>]
        ELSE [err |-> "", present |-> TRUE, keyIDs |-> ids.keyIDs]

\* ec2 fetchSshKeys up to the loop over keyIDs.
Ec2KeyList(resp) ==
    LET f == fetchString(resp)
        ids == Ec2KeyIDs(ScanLines(f.val), 1, <<>>)
    IN  IF f.err # "" THEN [err |-> "error reading keys", present |-> FALSE, keyIDs |-> <<>>]
        ELSE IF ~f.ok THEN [err |-> "", present |-> FALSE, keyIDs |-> <<>>]
        ELSE IF ids.err # "" THEN [err |-> ids.err, present |-> FALSE, keyIDs |-> <<>>]
        ELSE [err |-> "", present |-> TRUE, keyIDs |-> ids.keyIDs]

\* The Attributes literal of ec2 FetchMetadata.
Ec2Attributes(a) ==
    ("EC2_INSTANCE_ID" :> a.instanceId) @@
    ("EC2_IPV4_LOCAL" :> String(a.local)) @@
    ("EC2_IPV4_PUBLIC" :> String(a.public)) @@
    ("EC2_HOSTNAME" :> a.hostname) @@
    ("EC2_AVAILABILITY_ZONE" :> a.availabilityZone) @@
    ("EC2_REGION" :> a.region)

Ec2Metadata(a, keys) ==
    [Attributes |-> Ec2Attributes(a), Hostname |-> a.hostname,
     SshKeys |-> keys, Network |-> <<>>]

(***************************************************************************)
(* GCE                                                                     *)
(***************************************************************************)
\* The loop of gce fetchSshKeys, skipping a line without a colon.
RECURSIVE GceKeyLinesSkip(_, _, _)
GceKeyLinesSkip(lines, i, keys) ==
    IF i > Len(lines) THEN [err |-> "", keys |-> keys]
    ELSE IF Len(lines[i]) = 0 \/ Len(SplitN2(lines[i], ":")) # 2
         THEN GceKeyLinesSkip(lines, i + 1, keys)
    ELSE GceKeyLinesSkip(lines, i + 1, Append(keys, SplitN2(lines[i], ":")[2]))

\* The loop of gce fetchSshKeys over the lines of keydata.
RECURSIVE GceKeyLines(_, _, _)
GceKeyLines(lines, i, keys) ==
    IF i > Len(lines) THEN [err |-> "", keys |-> keys]
    ELSE IF Len(lines[i]) = 0 THEN GceKeyLines(lines, i + 1, keys)
    ELSE LET tokens == SplitN2(lines[i], ":")
         IN  IF Len(tokens) # 2 THEN [err |-> "malformed public key", keys |-> <<>>]
             ELSE GceKeyLines(lines, i + 1, Append(keys, tokens[2]))

\* gce fetchSshKeys: isnil tells the nil slice from the empty one.
gceFetchSshKeys(path, resp) ==
    LET f == gceFetchString(path, resp)
        k == GceKeyLines(f.val, 1, <<>>)
    IN  IF f.err # "" THEN [err |-> "error reading keys", isnil |-> TRUE, keys |-> <<>>]
        ELSE IF ~f.ok THEN [err |-> "", isnil |-> TRUE, keys |-> <<>>]
        ELSE IF k.err # "" THEN [err |-> k.err, isnil |-> TRUE, keys |-> <<>>]
        ELSE [err |-> "", isnil |-> FALSE, keys |-> k.keys]

\* fetchAllSshKeys leaving the project's keys out for any value of the flag.
BlockProjectKeysPresent(blockProjectKeys) == blockProjectKeys # ""

\* Whether fetchAllSshKeys leaves the project's keys out.
BlockProjectKeys(blockProjectKeys) ==
    ParseBool(blockProjectKeys).err = "" /\ ParseBool(blockProjectKeys).val

\* The Attributes literal of gce FetchMetadata.
GceAttributes(a) ==
    ("GCE_IP_LOCAL_0" :> String(a.local)) @@
    ("GCE_IP_EXTERNAL_0" :> String(a.public)) @@
    ("GCE_HOSTNAME" :> a.hostname)

GceMetadata(a, keys) ==
    [Attributes |-> GceAttributes(a), Hostname |-> a.hostname,
     SshKeys |-> keys, Network |-> <<>>]

(***************************************************************************)
(* DigitalOcean                                                            *)
(***************************************************************************)
\* json.Unmarshal(body, &m)
UnmarshalDoc(body) ==
    IF body.valid THEN [err |-> "", m |-> body.m]
    ELSE [err |-> "failed to unmarshal metadata", m |-> ZeroDoc]

RECURSIVE IfaceAttributes(_, _, _, _)
IfaceAttributes(list, i, bucket, withAnchor) ==
    IF i > Len(list) THEN <<>>
    ELSE (IF list[i].IPv4.present
          THEN <<"DIGITALOCEAN_IPV4", bucket, i - 1>> :> String(ParseIP(list[i].IPv4.IPAddress))
          ELSE <<>>) @@
         (IF list[i].IPv6.present
          THEN <<"DIGITALOCEAN_IPV6", bucket, i - 1>> :> String(ParseIP(list[i].IPv6.IPAddress))
          ELSE <<>>) @@
         (IF withAnchor /\ list[i].AnchorIPv4.present
          THEN <<"DIGITALOCEAN_IPV4_ANCHOR", i - 1>> :> String(ParseIP(list[i].AnchorIPv4.IPAddress))
          ELSE <<>>) @@
         IfaceAttributes(list, i + 1, bucket, withAnchor)

parseAttributes(metadata) ==
    (<<"DIGITALOCEAN_HOSTNAME">> :> metadata.Hostname) @@
    (<<"DIGITALOCEAN_REGION">> :> metadata.Region) @@
    IfaceAttributes(metadata.Interfaces.Public, 1, "PUBLIC", TRUE) @@
    IfaceAttributes(metadata.Interfaces.Private, 1, "PRIVATE", FALSE)

\* digitalocean FetchMetadata after the Get.
\* u is the result of json.Unmarshal, network that of parseNetwork.
DigitaloceanParsed(resp, u, network) ==
    IF resp.kind = "err" THEN Fail("failed to fetch metadata")
    ELSE IF u.err # "" THEN Fail(u.err)
    ELSE IF network.err # "" THEN Fail(network.err)
    ELSE Ok([Attributes |-> parseAttributes(u.m),
             Hostname   |-> u.m.Hostname,
             SshKeys    |-> u.m.PublicKeys,
             Network    |-> network.ifaces])

DigitaloceanMetadata(resp) ==
    DigitaloceanParsed(resp, UnmarshalDoc(resp.body), parseNetwork(UnmarshalDoc(resp.body).m))

(***************************************************************************)
(* The order of the sub-fetches.                                           *)
(***************************************************************************)
Ec2Step(p) ==
    CASE p = "instance_id"       -> [key |-> "2009-04-04/meta-data/instance-id", next |-> "public_ipv4"]
      [] p = "public_ipv4"       -> [key |-> "2009-04-04/meta-data/public-ipv4", next |-> "local_ipv4"]
      [] p = "local_ipv4"        -> [key |-> "2009-04-04/meta-data/local-ipv4", next |-> "hostname"]
      [] p = "hostname"          -> [key |-> "2009-04-04/meta-data/hostname", next |-> "availability_zone"]
      [] p = "availability_zone" -> [key |-> "2009-04-04/meta-data/placement/availability-zone",
                                     next |-> "document"]
      [] p = "document"          -> [key |-> "2009-04-04/dynamic/instance-identity/document",
                                     next |-> "public_keys"]
      [] p = "public_keys"       -> [key |-> "2009-04-04/public-keys", next |-> "openssh_key"]

GceStep(p) ==
    CASE p = "external_ip"   -> [key |-> "instance/network-interfaces/0/access-configs/0/external-ip",
                                 next |-> "ip"]
      [] p = "ip"            -> [key |-> "instance/network-interfaces/0/ip", next |-> "hostname"]
      [] p = "hostname"      -> [key |-> "instance/hostname", next |-> "sshKeys"]
      [] p = "sshKeys"       -> [key |-> "instance/attributes/sshKeys", next |-> "ssh_keys"]
      [] p = "ssh_keys"      -> [key |-> "instance/attributes/ssh-keys", next |-> "block_project"]
      [] p = "block_project" -> [key |-> "instance/attributes/block-project-ssh-keys",
                                 next |-> "project_sshKeys"]
      [] p = "project_sshKeys" -> [key |-> "project/attributes/sshKeys", next |-> "done"]

\* The Get calls FetchMetadata can issue next.
NextRequests ==
    CASE pc = "done" -> {}
      [] provider = "openstack" /\ pc \in OpenstackScalarPcs -> {Req(OpenstackScalar(pc).key)}
      [] provider = "openstack" /\ pc = "public_keys" -> {Req("latest/meta-data/public-keys")}
      [] provider = "openstack" /\ pc = "openssh_key"
            -> {KeyReq("latest/meta-data/public-keys/%s/openssh-key", acc.keyNum)}
      [] provider = "ec2" /\ pc = "openssh_key"
            -> {KeyReq(Ec2KeyPath, acc.keyIDs[n]) : n \in acc.pending}
      [] provider = "ec2" /\ pc # "openssh_key" -> {Req(Ec2Step(pc).key)}
      [] provider = "gce" -> {Req(GceStep(pc).key)}
      [] provider = "digitalocean" -> {Req(DOPath)}

(***************************************************************************)
(* The steps of FetchMetadata.                                             *)
(***************************************************************************)
OpenstackFetchAndSet ==
    /\ provider = "openstack"
    /\ pc \in OpenstackScalarPcs
    /\ \E req \in NextRequests : \E resp \in Responses(req.path) :
        LET r == fetchAndSet(resp, OpenstackScalar(pc).attr, acc.attrs)
        IN  IF r.err # "" THEN Return(req, resp, Fail(r.err))
            ELSE Goto(req, resp, OpenstackScalar(pc).next, [acc EXCEPT !.attrs = r.attributes])

OpenstackFetchKeys ==
    /\ provider = "openstack"
    /\ pc = "public_keys"
    /\ \E req \in NextRequests : \E resp \in Responses(req.path) :
        LET r == OpenstackKeyList(resp)
        IN  IF r.err # "" THEN Return(req, resp, Fail(r.err))
            ELSE IF ~r.fetch THEN Return(req, resp, Ok(OpenstackMetadata(acc.attrs, <<>>)))
            ELSE Goto(req, resp, "openssh_key", [acc EXCEPT !.keyNum = r.keyNum])

OpenstackFetchKey ==
    /\ provider = "openstack"
    /\ pc = "openssh_key"
    /\ \E req \in NextRequests : \E resp \in Responses(req.path) :
        LET r == OpenstackKeyBody(resp)
        IN  IF r.err # "" THEN Return(req, resp, Fail(r.err))
            ELSE Return(req, resp, Ok(OpenstackMetadata(acc.attrs, r.keys)))

Ec2FetchString ==
    /\ provider = "ec2"
    /\ pc \in {"instance_id", "hostname", "availability_zone"}
    /\ \E req \in NextRequests : \E resp \in Responses(req.path) :
        LET f == fetchString(resp)
        IN  IF f.err # "" THEN Return(req, resp, Fail(f.err))
            ELSE Goto(req, resp, Ec2Step(pc).next,
                      CASE pc = "instance_id" -> [acc EXCEPT !.instanceId = f.val]
                        [] pc = "hostname" -> [acc EXCEPT !.hostname = f.val]
                        [] pc = "availability_zone" -> [acc EXCEPT !.availabilityZone = f.val])

Ec2FetchIP ==
    /\ provider = "ec2"
    /\ pc \in {"public_ipv4", "local_ipv4"}
    /\ \E req \in NextRequests : \E resp \in Responses(req.path) :
        LET r == fetchIP(fetchString(resp))
        IN  IF r.err # "" THEN Return(req, resp, Fail(r.err))
            ELSE Goto(req, resp, Ec2Step(pc).next,
                      IF pc = "public_ipv4" THEN [acc EXCEPT !.public = r.ip]
                      ELSE [acc EXCEPT !.local = r.ip])

Ec2FetchDocument ==
    /\ provider = "ec2"
    /\ pc = "document"
    /\ \E req \in NextRequests : \E resp \in Responses(req.path) :
        LET f == fetchString(resp)
            d == UnmarshalInstanceIdDoc(f.val)
        IN  IF f.err # "" THEN Return(req, resp, Fail(f.err))
            ELSE IF d.err # "" THEN Return(req, resp, Fail(d.err))
            ELSE Goto(req, resp, Ec2Step(pc).next, [acc EXCEPT !.region = d.Region])

Ec2FetchKeyList ==
    /\ provider = "ec2"
    /\ pc = "public_keys"
    /\ \E req \in NextRequests : \E resp \in Responses(req.path) :
        LET r == Ec2KeyList(resp)
        IN  IF r.err # "" THEN Return(req, resp, Fail(r.err))
            ELSE IF ~r.present \/ DOMAIN r.keyIDs = {}
                 THEN Return(req, resp, Ok(Ec2Metadata(acc, <<>>)))
            ELSE Goto(req, resp, Ec2Step(pc).next,
                      [acc EXCEPT !.keyIDs = r.keyIDs, !.pending = DOMAIN r.keyIDs])

\* One round of the loop over keyIDs: a range over a map takes the names
\* in no particular order.
Ec2FetchKey ==
    /\ provider = "ec2"
    /\ pc = "openssh_key"
    /\ \E name \in acc.pending : \E resp \in Responses(Ec2KeyPath) :
        LET req == KeyReq(Ec2KeyPath, acc.keyIDs[name])
            f == fetchString(resp)
            keys == Append(acc.keys, f.val)
        IN  IF f.err # "" THEN Return(req, resp, Fail(f.err))
            ELSE IF acc.pending = {name} THEN Return(req, resp, Ok(Ec2Metadata(acc, keys)))
            ELSE Goto(req, resp, "openssh_key",
                      [acc EXCEPT !.pending = acc.pending \ {name}, !.keys = keys])

GceFetchIP ==
    /\ provider = "gce"
    /\ pc \in {"external_ip", "ip"}
    /\ \E req \in NextRequests : \E resp \in Responses(req.path) :
        LET r == fetchIP(gceFetchString(req.path, resp))
        IN  IF r.err # "" THEN Return(req, resp, Fail(r.err))
            ELSE Goto(req, resp, GceStep(pc).next,
                      IF pc = "external_ip" THEN [acc EXCEPT !.public = r.ip]
                      ELSE [acc EXCEPT !.local = r.ip])

GceFetchHostname ==
    /\ provider = "gce"
    /\ pc = "hostname"
    /\ \E req \in NextRequests : \E resp \in Responses(req.path) :
        LET f == gceFetchString(req.path, resp)
        IN  IF f.err # "" THEN Return(req, resp, Fail(f.err))
            ELSE Goto(req, resp, GceStep(pc).next, [acc EXCEPT !.hostname = f.val])

GceFetchDeprecatedKeys ==
    /\ provider = "gce"
    /\ pc = "sshKeys"
    /\ \E req \in NextRequests : \E resp \in Responses(req.path) :
        LET r == gceFetchSshKeys(req.path, resp)
        IN  IF r.err # "" THEN Return(req, resp, Fail(r.err))
            ELSE IF ~r.isnil THEN Return(req, resp, Ok(GceMetadata(acc, r.keys)))
            ELSE Goto(req, resp, GceStep(pc).next, acc)

GceFetchInstanceKeys ==
    /\ provider = "gce"
    /\ pc = "ssh_keys"
    /\ \E req \in NextRequests : \E resp \in Responses(req.path) :
        LET r == gceFetchSshKeys(req.path, resp)
        IN  IF r.err # "" THEN Return(req, resp, Fail(r.err))
            ELSE Goto(req, resp, GceStep(pc).next, [acc EXCEPT !.keys = r.keys])

GceFetchBlockProjectKeys ==
    /\ provider = "gce"
    /\ pc = "block_project"
    /\ \E req \in NextRequests : \E resp \in Responses(req.path) :
        LET f == gceFetchString(req.path, resp)
        IN  IF f.err # "" THEN Return(req, resp, Fail(f.err))
            ELSE IF BlockProjectKeys(f.val) THEN Return(req, resp, Ok(GceMetadata(acc, acc.keys)))
            ELSE Goto(req, resp, GceStep(pc).next, acc)

GceFetchProjectKeys ==
    /\ provider = "gce"
    /\ pc = "project_sshKeys"
    /\ \E req \in NextRequests : \E resp \in Responses(req.path) :
        LET r == gceFetchSshKeys(req.path, resp)
        IN  IF r.err # "" THEN Return(req, resp, Fail(r.err))
            ELSE Return(req, resp, Ok(GceMetadata(acc, acc.keys \o r.keys)))

DigitaloceanFetchMetadata ==
    /\ provider = "digitalocean"
    /\ pc = "v1_json"
    /\ \E req \in NextRequests :
        \/ \E resp \in Responses(req.path) :
              Return(req, resp, DigitaloceanMetadata(resp))
        \/ \E k \in 0..MaxIfaces : \E j \in 0..k :
           \E s \in [1..k -> DocIfaces] : \E ns \in NameserverLists :
              LET resp == [kind |-> "present", body |-> [valid |-> TRUE, m |-> Doc(s, j, ns)]]
              IN  Return(req, resp, DigitaloceanMetadata(resp))

IdleIface == ifaceIn = NilAddress /\ ifaceOut = NilAddress

IdleProvider ==
    /\ provider = "none"
    /\ pc = "idle"
    /\ log = <<>>
    /\ acc = EmptyAcc
    /\ result = [err |-> "", md |-> ZeroMetadata]

IdleRetry == client = 0 /\ attempt = 0 /\ sleeps = <<>> /\ outcome = ""

Init ==
    /\ provider \in Providers
    /\ pc = FirstPc(provider)
    /\ log = <<>>
    /\ acc = EmptyAcc
    /\ result = Ok(ZeroMetadata)
    /\ IdleIface
    /\ IdleRetry

Next ==
    \/ OpenstackFetchAndSet
    \/ OpenstackFetchKeys
    \/ OpenstackFetchKey
    \/ Ec2FetchString
    \/ Ec2FetchIP
    \/ Ec2FetchDocument
    \/ Ec2FetchKeyList
    \/ Ec2FetchKey
    \/ GceFetchIP
    \/ GceFetchHostname
    \/ GceFetchDeprecatedKeys
    \/ GceFetchInstanceKeys
    \/ GceFetchBlockProjectKeys
    \/ GceFetchProjectKeys
    \/ DigitaloceanFetchMetadata

Spec == Init /\ [][Next]_vars

(***************************************************************************)
(* parseInterface on its own: every combination of a present or absent     *)
(* IPv4, IPv6 and anchor address, each string of which parses or does not, *)
(* under every type.                                                       *)
(***************************************************************************)
V4Addresses(ip, mask, gw) ==
    {NilAddress} \cup
    {Address(i, m, 0, g) : i \in {ip, "bogus"}, m \in {mask, "bogus"}, g \in {gw, "bogus"}}

V6Addresses ==
    {NilAddress} \cup
    {Address(i, "", c, g) : i \in {"2001:db8::5", "bogus"}, c \in {64, 129},
                            g \in {"2001:db8::1", "bogus"}}

IfaceInputs ==
    {Interface(v4, v6, anchor, M1Lower, type) :
        v4 \in V4Addresses("10.0.0.5", "255.255.255.0", "10.0.0.1"),
        v6 \in V6Addresses,
        anchor \in V4Addresses("10.1.0.9", "255.255.0.0", "10.1.0.1"),
        type \in {"public", "private", ""}}

InitIface ==
    /\ IdleProvider
    /\ IdleRetry
    /\ ifaceIn \in IfaceInputs
    /\ ifaceOut = [called |-> FALSE, err |-> "", addrs |-> <<>>, routes |-> <<>>]

\* The call of parseInterface in parseNetwork.
CallParseInterface ==
    /\ ~ifaceOut.called
    /\ ifaceOut' = [called |-> TRUE] @@ parseInterface(ifaceIn, IsPublic(ifaceIn))
    /\ UNCHANGED <<ifaceIn, providerVars, retryVars>>

NextIface == CallParseInterface

SpecIface == InitIface /\ [][NextIface]_vars

(***************************************************************************)
(* retry.Client.Get.  The attempts of one Get: each fails (a connection    *)
(* error or a 5xx answer), or answers 404 (absent) or 200 (present).       *)
(* Durations are in seconds.                                               *)
(***************************************************************************)
\* One attempt fewer.
MaxAttemptsShort == 10 - 1

InitialBackoff == 1
MaxBackoff == 5
MaxAttempts == 10

\* The client every NewMetadataProvider builds.
ProviderClient ==
    [InitialBackoff |-> InitialBackoff, MaxBackoff |-> MaxBackoff, MaxAttempts |-> MaxAttempts]

RetryMaxInitial == 2
RetryMaxBackoff == 4
RetryMaxAttempts == 3

Clients ==
    {ProviderClient} \cup
    {[InitialBackoff |-> i, MaxBackoff |-> m, MaxAttempts |-> a] :
        i \in 1..RetryMaxInitial, m \in 1..RetryMaxBackoff, a \in 1..RetryMaxAttempts}

Min(a, b) == IF a <= b THEN a ELSE b

\* The delay before the next attempt: InitialBackoff first, then twice the
\* previous delay, never more than MaxBackoff.
NextDelay(c, slept) ==
    IF slept = <<>> THEN Min(c.InitialBackoff, c.MaxBackoff)
    ELSE Min(2 * slept[Len(slept)], c.MaxBackoff)

InitRetry ==
    /\ IdleProvider
    /\ IdleIface
    /\ client \in Clients
    /\ attempt = 0
    /\ sleeps = <<>>
    /\ outcome = ""

\* One attempt of Get, and the sleep that follows a failed attempt that
\* was not the last.
RetryAttempt ==
    /\ outcome = ""
    /\ attempt < client.MaxAttempts
    /\ attempt' = attempt + 1
    /\ \E status \in {"connection error", "5xx", "404", "200"} :
        IF status = "200" THEN outcome' = "present" /\ sleeps' = sleeps
        ELSE IF status = "404" THEN outcome' = "absent" /\ sleeps' = sleeps
        ELSE IF attempt + 1 = client.MaxAttempts
             THEN outcome' = "retry exhausted" /\ sleeps' = sleeps
        ELSE outcome' = "" /\ sleeps' = Append(sleeps, NextDelay(client, sleeps))
    /\ UNCHANGED <<client, providerVars, ifaceVars>>

NextRetry == RetryAttempt

SpecRetry == InitRetry /\ [][NextRetry]_vars

(***************************************************************************)
(* Vocabulary of the properties.                                           *)
(***************************************************************************)
Done == pc = "done"

Failed == Done /\ result.err # ""

Succeeded == Done /\ result.err = ""

\* The i-th Get is the one whose answer made FetchMetadata return an error.
FailsAt(i) == i = Len(log) /\ Failed

Count(line, c) == Cardinality({i \in 1..Len(line) : line[i] = c})

\* The attribute a scalar key is recorded under.
ScalarAttr(path) ==
    CASE path = "latest/meta-data/instance-id" -> "OPENSTACK_INSTANCE_ID"
      [] path = "latest/meta-data/local-ipv4"  -> "OPENSTACK_IPV4_LOCAL"
      [] path = "latest/meta-data/public-ipv4" -> "OPENSTACK_IPV4_PUBLIC"
      [] path = "latest/meta-data/hostname"    -> "OPENSTACK_HOSTNAME"
      [] path = "2009-04-04/meta-data/instance-id" -> "EC2_INSTANCE_ID"
      [] path = "2009-04-04/meta-data/public-ipv4" -> "EC2_IPV4_PUBLIC"
      [] path = "2009-04-04/meta-data/local-ipv4"  -> "EC2_IPV4_LOCAL"
      [] path = "2009-04-04/meta-data/hostname"    -> "EC2_HOSTNAME"
      [] path = "2009-04-04/meta-data/placement/availability-zone" -> "EC2_AVAILABILITY_ZONE"
      [] path = "2009-04-04/dynamic/instance-identity/document"    -> "EC2_REGION"
      [] path = "instance/network-interfaces/0/access-configs/0/external-ip" -> "GCE_IP_EXTERNAL_0"
      [] path = "instance/network-interfaces/0/ip" -> "GCE_IP_LOCAL_0"
      [] path = "instance/hostname"                -> "GCE_HOSTNAME"
      [] OTHER -> ""

IsScalarKey(path) == ScalarAttr(path) # ""

\* A listing whose lines make the key fetch fail, provider by provider.
OpenstackBadListing(body) == body # << <<>> >> /\ Count(body[1], "=") # 1

Ec2BadListing(body) == \E i \in 1..Len(ScanLines(body)) : Count(body[i], "=") = 0

GceBadListing(body) == \E i \in 1..Len(body) : body[i] # <<>> /\ Count(body[i], ":") = 0

BadListing(e) ==
    /\ e.kind = "present"
    /\ CASE e.req.path = "latest/meta-data/public-keys" -> OpenstackBadListing(e.body)
         [] e.req.path = "2009-04-04/public-keys"       -> Ec2BadListing(e.body)
         [] OTHER                                       -> GceBadListing(e.body)

\* A present address one of whose strings is no IP literal.
AddressFails(a, isV6) ==
    /\ a.present
    /\ \/ ParseIP(a.IPAddress) = <<>>
       \/ ~isV6 /\ ParseIP(a.Netmask) = <<>>
       \/ ParseIP(a.Gateway) = <<>>

\* A document one of whose nameservers, hardware addresses or present
\* address, netmask or gateway strings does not parse.
AnyParseFailureIn(m) ==
    \/ \E i \in 1..Len(m.DNS.Nameservers) : ParseIP(m.DNS.Nameservers[i]) = <<>>
    \/ \E d \in {m.Interfaces.Private[i] : i \in 1..Len(m.Interfaces.Private)} \cup
                {m.Interfaces.Public[i] : i \in 1..Len(m.Interfaces.Public)} :
        \/ ParseMAC(d.MAC) = <<>>
        \/ AddressFails(d.IPv4, FALSE)
        \/ AddressFails(d.IPv6, TRUE)
        \/ AddressFails(d.AnchorIPv4, FALSE)

\* An answer that is a fatal error for FetchMetadata.
Fatal(e) ==
    \/ e.kind = "err"
    \/ /\ e.req.path \in {"2009-04-04/meta-data/public-ipv4", "2009-04-04/meta-data/local-ipv4"}
       /\ e.kind = "present"
       /\ ParseIP(e.body) = <<>>
    \/ /\ e.req.path \in {"instance/network-interfaces/0/access-configs/0/external-ip",
                          "instance/network-interfaces/0/ip"}
       /\ e.body # ""
       /\ ParseIP(e.body) = <<>>
    \/ /\ e.req.path = "2009-04-04/dynamic/instance-identity/document"
       /\ UnmarshalInstanceIdDoc(e.body).err # ""
    \/ /\ e.req.path = "latest/meta-data/public-keys/%s/openssh-key"
       /\ e.body = ""
    \/ /\ e.req.path \in ListingPaths
       /\ BadListing(e)
    \/ /\ e.req.path = DOPath
       /\ (~e.body.valid \/ AnyParseFailureIn(e.body.m))

\* The keys in the order in which the code fetches them; the last key of
\* ec2 is fetched once per key name.
PathOrder(p) ==
    CASE p = "openstack" ->
            <<"latest/meta-data/instance-id", "latest/meta-data/local-ipv4",
              "latest/meta-data/public-ipv4", "latest/meta-data/hostname",
              "latest/meta-data/public-keys", "latest/meta-data/public-keys/%s/openssh-key">>
      [] p = "ec2" ->
            <<"2009-04-04/meta-data/instance-id", "2009-04-04/meta-data/public-ipv4",
              "2009-04-04/meta-data/local-ipv4", "2009-04-04/meta-data/hostname",
              "2009-04-04/meta-data/placement/availability-zone",
              "2009-04-04/dynamic/instance-identity/document",
              "2009-04-04/public-keys", "2009-04-04/public-keys/%s/openssh-key">>
      [] p = "gce" ->
            <<"instance/network-interfaces/0/access-configs/0/external-ip",
              "instance/network-interfaces/0/ip", "instance/hostname",
              "instance/attributes/sshKeys", "instance/attributes/ssh-keys",
              "instance/attributes/block-project-ssh-keys", "project/attributes/sshKeys">>
      [] p = "digitalocean" -> <<DOPath>>

InPathOrder ==
    \A i \in 1..Len(log) :
        IF i <= Len(PathOrder(provider)) THEN log[i].req.path = PathOrder(provider)[i]
        ELSE provider = "ec2" /\ log[i].req.path = Ec2KeyPath

\* Fail fast: a fatal answer is the last one FetchMetadata asks for, and it
\* returns the error with the zero Metadata.
FailFast ==
    /\ \A i \in 1..Len(log) : Fatal(log[i]) => FailsAt(i)
    /\ Failed => result.md = ZeroMetadata /\ Fatal(log[Len(log)])
    /\ InPathOrder

(***************************************************************************)
(* C1.  A scalar key the service answers as absent is left out of          *)
(* Attributes, and does not make FetchMetadata fail: whenever FetchMetadata*)
(* has returned and a scalar key was answered absent, that answer is not   *)
(* the one that failed the call, and a successful call's Attributes have   *)
(* no entry under the key's attribute name.                                *)
(***************************************************************************)
C1_AbsentScalarOmitted ==
    Done =>
        \A i \in 1..Len(log) :
            (IsScalarKey(log[i].req.path) /\ log[i].kind = "absent") =>
                /\ ~FailsAt(i)
                /\ Succeeded => ScalarAttr(log[i].req.path) \notin DOMAIN result.md.Attributes

(***************************************************************************)
(* C2 as stated.  The sub-fetches are issued in a fixed order (at every    *)
(* point at most one Get can come next), a fatal answer ends the call at   *)
(* once with the error and the zero Metadata, and no Get follows it.       *)
(***************************************************************************)
C2_FixedOrderFailFast ==
    /\ FailFast
    /\ Cardinality(NextRequests) <= 1

(***************************************************************************)
(* C2 as amended.  The keys are fetched in the order of the code, a fatal  *)
(* answer ends the call at once with the error and the zero Metadata, and  *)
(* no Get follows it; the next Get is determined by the answers so far,    *)
(* except among ec2's per-name openssh-key fetches, which follow the       *)
(* iteration order of a map.                                               *)
(***************************************************************************)
C2_FailFast ==
    /\ FailFast
    /\ Cardinality(NextRequests) <= 1 \/ (provider = "ec2" /\ pc = "openssh_key")

\* C2's case: a call fails after earlier sub-fetches have set attributes.
C2_Witness ==
    /\ provider = "openstack"
    /\ Failed
    /\ Len(log) >= 3
    /\ DOMAIN acc.attrs # {}

(***************************************************************************)
(* The DigitalOcean document of a call, once it has been decoded.          *)
(***************************************************************************)
Decoded ==
    /\ provider = "digitalocean"
    /\ Done
    /\ log[1].kind = "present"
    /\ log[1].body.valid

Document == log[1].body.m

\* The descriptions, private list first.
Descriptions == Document.Interfaces.Private \o Document.Interfaces.Public

\* The interfaces FetchMetadata returned: a bag of NetworkInterface.
Network == result.md.Network

RECURSIVE ConcatAddrs(_)
ConcatAddrs(ds) ==
    IF ds = <<>> THEN <<>>
    ELSE parseInterface(Head(ds), Head(ds).Type = "public").addrs \o ConcatAddrs(Tail(ds))

RECURSIVE ConcatRoutes(_)
ConcatRoutes(ds) ==
    IF ds = <<>> THEN <<>>
    ELSE parseInterface(Head(ds), Head(ds).Type = "public").routes \o ConcatRoutes(Tail(ds))

\* The descriptions whose hardware address is hw, in processing order.
WithHardwareAddress(hw) ==
    LET Same(d) == ParseMAC(d.MAC) = hw
    IN  SelectSeq(Descriptions, Same)

(***************************************************************************)
(* C3.  A successful parseNetwork returns exactly one NetworkInterface per *)
(* distinct parsed hardware address: no interface twice, no two with the   *)
(* same HardwareAddress, and one for the address of every description.     *)
(***************************************************************************)
C3_OneInterfacePerHardwareAddress ==
    (Decoded /\ Succeeded) =>
        /\ \A v \in DOMAIN Network : Network[v] = 1
        /\ \A v, w \in DOMAIN Network : v # w => v.HardwareAddress # w.HardwareAddress
        /\ {v.HardwareAddress : v \in DOMAIN Network} =
           {ParseMAC(Descriptions[i].MAC) : i \in 1..Len(Descriptions)}

(***************************************************************************)
(* C4.  The IPAddresses and the Routes of a returned NetworkInterface are  *)
(* the concatenation, in processing order (private list, then public       *)
(* list), of what parseInterface yields for each description with that     *)
(* hardware address.                                                       *)
(***************************************************************************)
C4_MergeByConcatenation ==
    (Decoded /\ Succeeded) =>
        \A v \in DOMAIN Network :
            /\ v.IPAddresses = ConcatAddrs(WithHardwareAddress(v.HardwareAddress))
            /\ v.Routes = ConcatRoutes(WithHardwareAddress(v.HardwareAddress))

(***************************************************************************)
(* C6.  Every NetworkInterface a successful parseNetwork returns has at    *)
(* least one address.                                                      *)
(***************************************************************************)
C6_AddressesNonEmpty ==
    (Decoded /\ Succeeded) => \A v \in DOMAIN Network : v.IPAddresses # <<>>

NetworkParseErrors ==
    {"could not parse nameserver", "could not parse MAC address",
     "could not parse IPv4 address", "could not parse IPv4 mask",
     "could not parse IPv6 address", "could not parse gateway address"}

(***************************************************************************)
(* C10.  parseNetwork is all-or-nothing: when a nameserver, a hardware     *)
(* address, or a present address, netmask or gateway string of any         *)
(* description does not parse, parseNetwork returns a parse error and no   *)
(* NetworkInterface (and FetchMetadata the error and the zero Metadata).   *)
(***************************************************************************)
C10_ParseNetworkAllOrNothing ==
    (Decoded /\ AnyParseFailureIn(Document)) =>
        LET r == parseNetwork(Document)
        IN  /\ r.err \in NetworkParseErrors
            /\ r.ifaces = <<>>
            /\ Failed
            /\ result.err = r.err
            /\ result.md = ZeroMetadata

\* C10's case: a description that parses, followed by one whose gateway
\* does not.
C10_Witness ==
    /\ Decoded
    /\ Failed
    /\ Len(Descriptions) = 2
    /\ Descriptions[1].IPv4.present
    /\ parseInterface(Descriptions[1], FALSE).err = ""
    /\ ParseMAC(Descriptions[1].MAC) # <<>>
    /\ Descriptions[2].AnchorIPv4.present
    /\ ParseIP(Descriptions[2].AnchorIPv4.Gateway) = <<>>

(***************************************************************************)
(* Key listings.                                                           *)
(***************************************************************************)
Separator(path) ==
    IF path \in {"latest/meta-data/public-keys", "2009-04-04/public-keys"} THEN "=" ELSE ":"

\* The lines of a body as text: a final newline ends the last line.
TextLines(body) == ScanLines(body)

EmptyListing(e) == e.kind = "absent" \/ (e.kind = "present" /\ e.body = << <<>> >>)

IsListing(e) == e.req.path \in ListingPaths

(***************************************************************************)
(* C8 as stated.  A present listing with a line that does not have exactly *)
(* one delimiter, wherever the line stands, makes FetchMetadata return a   *)
(* parse error at once, with no keys.                                      *)
(***************************************************************************)
C8_AnyMalformedLineFails ==
    \A i \in 1..Len(log) :
        ( /\ IsListing(log[i])
          /\ log[i].kind = "present"
          /\ \E n \in 1..Len(TextLines(log[i].body)) :
                Count(log[i].body[n], Separator(log[i].req.path)) # 1 ) =>
            FailsAt(i) /\ result.md.SshKeys = <<>>

(***************************************************************************)
(* C8 as amended.  A present listing makes FetchMetadata return a parse    *)
(* error at once, with no keys, exactly when: for OpenStack, its first     *)
(* line does not have exactly one "="; for EC2, one of its lines has no    *)
(* "="; for GCE, one of its non-empty lines has no ":".  OpenStack does    *)
(* not look at the lines after the first, GCE skips empty lines, and EC2   *)
(* and GCE split a line at its first delimiter and accept further ones.    *)
(***************************************************************************)
C8_MalformedLineFails ==
    \A i \in 1..Len(log) :
        (IsListing(log[i]) /\ log[i].kind = "present") =>
            /\ BadListing(log[i]) <=> FailsAt(i)
            /\ FailsAt(i) => result.md = ZeroMetadata

\* C8's case: an ec2 listing whose second line has no delimiter.
C8_Witness ==
    /\ provider = "ec2"
    /\ Failed
    /\ IsListing(log[Len(log)])
    /\ log[Len(log)].kind = "present"
    /\ Len(log[Len(log)].body) = 2
    /\ Count(log[Len(log)].body[1], "=") = 1
    /\ Count(log[Len(log)].body[2], "=") = 0
    /\ log[Len(log)].body[2] # <<>>

(***************************************************************************)
(* C9.  An absent listing, or a present one with an empty body, is never   *)
(* what makes FetchMetadata fail and yields no keys: OpenStack and EC2     *)
(* return at once, successfully, with an empty SshKeys; GCE's fetchSshKeys *)
(* returns no keys and no error for it, and a successful GCE call all of   *)
(* whose listings were absent or empty has an empty SshKeys.               *)
(***************************************************************************)
C9_EmptyListingNoKeys ==
    /\ \A i \in 1..Len(log) :
        (IsListing(log[i]) /\ EmptyListing(log[i])) =>
            /\ ~FailsAt(i)
            /\ provider \in {"openstack", "ec2"} =>
                  i = Len(log) /\ Succeeded /\ result.md.SshKeys = <<>>
            /\ provider = "gce" =>
                  LET r == gceFetchSshKeys(log[i].req.path, log[i])
                  IN  r.err = "" /\ r.keys = <<>>
    /\ ( /\ provider = "gce"
         /\ Succeeded
         /\ \A i \in 1..Len(log) : IsListing(log[i]) => EmptyListing(log[i]) ) =>
            result.md.SshKeys = <<>>

\* C9's case: ec2 answers the listing with an empty body.
C9_Witness ==
    /\ provider = "ec2"
    /\ Succeeded
    /\ IsListing(log[Len(log)])
    /\ log[Len(log)].kind = "present"
    /\ log[Len(log)].body = << <<>> >>

\* C9's case for gce: all three listings absent or empty.
C9_WitnessGce ==
    /\ provider = "gce"
    /\ Succeeded
    /\ Len(log) = 7
    /\ \A i \in 1..Len(log) : IsListing(log[i]) => EmptyListing(log[i])

(***************************************************************************)
(* parseInterface.                                                         *)
(***************************************************************************)
\* The route to an address's own network via its gateway.
OwnRoute(a, isV6) ==
    [Destination |-> [IP   |-> ParseIP(a.IPAddress),
                      Mask |-> IF isV6 THEN CIDRMask(a.Cidr, 128)
                               ELSE To4(ParseIP(a.Netmask))],
     Gateway |-> ParseIP(a.Gateway)]

\* The default route of a family via an address's gateway.
DefaultRoute(a, isV6) ==
    [Destination |-> [IP   |-> IF isV6 THEN IPv6zero ELSE IPv4zero,
                      Mask |-> IF isV6 THEN IPv6zero ELSE IPv4zero],
     Gateway |-> ParseIP(a.Gateway)]

\* The address and the mask net.IPNet reads out of n (networkNumberAndMask):
\* 0.0.0.0/0 is <<0,0,0,0>> under <<0,0,0,0>>, ::/0 sixteen zeros under
\* sixteen zeros.
NetworkNumberAndMask(n) ==
    LET ip == IF To4(n.IP) # <<>> THEN To4(n.IP) ELSE n.IP
    IN  [ip   |-> ip,
         mask |-> IF Len(n.Mask) = 16 /\ Len(ip) = 4 THEN SubSeq(n.Mask, 13, 16)
                  ELSE n.Mask]

RoutesFor(a, isV6, withDefault) ==
    IF ~a.present THEN <<>>
    ELSE <<OwnRoute(a, isV6)>> \o (IF withDefault THEN <<DefaultRoute(a, isV6)>> ELSE <<>>)

(***************************************************************************)
(* C5.  A successful parseInterface yields, for the present addresses in   *)
(* the order IPv4, IPv6, anchor IPv4, the route to the address's own       *)
(* network via its gateway, followed for IPv4 and IPv6, exactly when the   *)
(* description's type is "public", by the default route (0.0.0.0/0, ::/0)  *)
(* via the same gateway; the anchor address never adds a default route.    *)
(***************************************************************************)
C5_RoutesOfInterface ==
    (ifaceOut.called /\ ifaceOut.err = "") =>
        /\ ifaceOut.routes =
              RoutesFor(ifaceIn.IPv4, FALSE, ifaceIn.Type = "public") \o
              RoutesFor(ifaceIn.IPv6, TRUE, ifaceIn.Type = "public") \o
              RoutesFor(ifaceIn.AnchorIPv4, FALSE, FALSE)
        /\ NetworkNumberAndMask(DefaultRoute(ifaceIn.IPv4, FALSE).Destination) =
              [ip |-> <<0, 0, 0, 0>>, mask |-> <<0, 0, 0, 0>>]
        /\ NetworkNumberAndMask(DefaultRoute(ifaceIn.IPv6, TRUE).Destination) =
              [ip |-> IPv6zero, mask |-> IPv6zero]

\* C5's case: a public description with all three addresses.
C5_Witness ==
    /\ ifaceOut.called
    /\ ifaceOut.err = ""
    /\ ifaceIn.Type = "public"
    /\ ifaceIn.IPv4.present
    /\ ifaceIn.IPv6.present
    /\ ifaceIn.AnchorIPv4.present
    /\ Len(ifaceOut.routes) = 5

(***************************************************************************)
(* The retry client.                                                       *)
(***************************************************************************)
RECURSIVE Exp2(_)
Exp2(n) == IF n = 0 THEN 1 ELSE 2 * Exp2(n - 1)

(***************************************************************************)
(* C7.  A Get all of whose attempts fail makes exactly MaxAttempts         *)
(* attempts and then returns the retry-exhausted error; the delay after    *)
(* the k-th failed attempt is min(InitialBackoff * 2^(k-1), MaxBackoff)    *)
(* and there is none after the last; with the providers' client that is    *)
(* 10 attempts and the delays 1,2,4,5,5,5,5,5,5 seconds.                   *)
(***************************************************************************)
C7_RetrySchedule ==
    /\ outcome = "" => attempt < client.MaxAttempts /\ Len(sleeps) = attempt
    /\ outcome = "retry exhausted" =>
          attempt = client.MaxAttempts /\ Len(sleeps) = client.MaxAttempts - 1
    /\ \A k \in 1..Len(sleeps) :
          sleeps[k] = Min(client.InitialBackoff * Exp2(k - 1), client.MaxBackoff)
    /\ (client = ProviderClient /\ outcome = "retry exhausted") =>
          attempt = 10 /\ sleeps = <<1, 2, 4, 5, 5, 5, 5, 5, 5>>

\* C7's case: the providers' client, every attempt failed.
C7_Witness ==
    /\ client = ProviderClient
    /\ outcome = "retry exhausted"
    /\ attempt = 10

(***************************************************************************)
(* The key sources of GCE.                                                 *)
(***************************************************************************)
DeprecatedKeysPath == "instance/attributes/sshKeys"
InstanceKeysPath   == "instance/attributes/ssh-keys"
BlockProjectPath   == "instance/attributes/block-project-ssh-keys"
ProjectKeysPath    == "project/attributes/sshKeys"

Fetched(path) == \E i \in 1..Len(log) : log[i].req.path = path

Answer(path) == log[CHOOSE i \in 1..Len(log) : log[i].req.path = path]

\* Whether every Get of path a comes before every Get of path b.
FetchedBefore(a, b) ==
    \A i, j \in 1..Len(log) :
        (log[i].req.path = a /\ log[j].req.path = b) => i < j

\* A GCE listing is present when its body is not empty: the service
\* answers 200 with an empty body for a key it does not have.
GcePresent(e) == e.kind = "present" /\ e.body # << <<>> >>

\* What follows the first ":" of a line.
KeyBody(line) ==
    LET k == CHOOSE k \in 1..Len(line) :
                 line[k] = ":" /\ \A j \in 1..(k - 1) : line[j] # ":"
    IN  SubSeq(line, k + 1, Len(line))

\* The keys of a listing: the key body of each non-empty line, in order.
RECURSIVE KeyBodies(_)
KeyBodies(lines) ==
    IF lines = <<>> THEN <<>>
    ELSE IF Head(lines) = <<>> THEN KeyBodies(Tail(lines))
    ELSE <<KeyBody(Head(lines))>> \o KeyBodies(Tail(lines))

GceKeys(e) == IF GcePresent(e) THEN KeyBodies(e.body) ELSE <<>>

\* The values strconv.ParseBool reads as true.
BlockTrue(e) == e.kind = "present" /\ e.body \in {"1", "t", "T", "TRUE", "true", "True"}

(***************************************************************************)
(* C11.  GCE fetchAllSshKeys consults its key sources in a fixed           *)
(* precedence.  The deprecated instance listing comes first; when it is    *)
(* present (its body is not empty) no other key source is fetched and a    *)
(* successful call returns exactly its keys.  Otherwise the instance       *)
(* listing and then the block-project flag are fetched; when the flag      *)
(* parses as true the project listing is not fetched and a successful call *)
(* returns the instance keys; otherwise the project listing is fetched     *)
(* last and a successful call returns the instance keys followed by the    *)
(* project keys.                                                           *)
(***************************************************************************)
C11_GceKeyPrecedence ==
    provider = "gce" =>
        /\ FetchedBefore(DeprecatedKeysPath, InstanceKeysPath)
        /\ FetchedBefore(InstanceKeysPath, BlockProjectPath)
        /\ FetchedBefore(BlockProjectPath, ProjectKeysPath)
        /\ Fetched(ProjectKeysPath) => Fetched(BlockProjectPath)
        /\ Fetched(BlockProjectPath) => Fetched(InstanceKeysPath)
        /\ Fetched(InstanceKeysPath) => Fetched(DeprecatedKeysPath)
        /\ (Fetched(DeprecatedKeysPath) /\ GcePresent(Answer(DeprecatedKeysPath))) =>
              /\ Done
              /\ ~Fetched(InstanceKeysPath)
              /\ ~Fetched(BlockProjectPath)
              /\ ~Fetched(ProjectKeysPath)
              /\ Succeeded =>
                    result.md.SshKeys = KeyBodies(Answer(DeprecatedKeysPath).body)
        /\ (Fetched(BlockProjectPath) /\ BlockTrue(Answer(BlockProjectPath))) =>
              /\ Done
              /\ ~Fetched(ProjectKeysPath)
              /\ Succeeded /\ result.md.SshKeys = GceKeys(Answer(InstanceKeysPath))
        /\ (Succeeded /\ ~GcePresent(Answer(DeprecatedKeysPath))) =>
              /\ Fetched(BlockProjectPath)
              /\ ~BlockTrue(Answer(BlockProjectPath)) =>
                    /\ Fetched(ProjectKeysPath)
                    /\ result.md.SshKeys =
                          GceKeys(Answer(InstanceKeysPath)) \o
                          GceKeys(Answer(ProjectKeysPath))

\* C11's case: no deprecated listing, an instance key, a flag that is not
\* true and a project key: both keys are returned, the instance key first.
C11_Witness ==
    /\ provider = "gce"
    /\ Succeeded
    /\ ~GcePresent(Answer(DeprecatedKeysPath))
    /\ Fetched(ProjectKeysPath)
    /\ Answer(BlockProjectPath).kind = "present"
    /\ Answer(BlockProjectPath).body = "false"
    /\ result.md.SshKeys = << <<"i">>, <<"p">> >>

====
